---------------------------- MODULE Spec2Model ----------------------------
(***************************************************************************)
(* nostr2discord: the event admission and deduplication pipeline.          *)
(*                                                                         *)
(* The repository ships the same pipeline in several deployment variants,  *)
(* each a Node.js process with module-level state (the dedup ledger, the   *)
(* poll cursor).  A deployment runs exactly one of them:                   *)
(*   "poller"          src/functions/scheduled-poller.js                   *)
(*   "webhook"         src/functions/webhook.js                            *)
(*   "webhook_recent"  src/unnamed/part_000                                *)
(*   "webhook_simple"  src/unnamed/part_007 (lines 1-513)                  *)
(*   "bot"             src/index.js (lines 311-978)                        *)
(*   "config_endpoint" src/unnamed/part_007 (lines 515-576)                *)
(* and "ledger" is the ledger of src/unnamed/part_002 on its own.          *)
(*                                                                         *)
(* The Discord webhook (the sink) and the relays (the sources) are the     *)
(* environment: their answers are the inputs of the actions.  The clock is *)
(* kept in whole seconds; Date.now() is now * 1000.                        *)
(***************************************************************************)
EXTENDS Integers, Sequences, FiniteSets, Bags, TLC

(***************************************************************************)
(* Bounds of the model.                                                    *)
(***************************************************************************)
\* The clock advances at most MaxTicks times, TickSeconds at a time.
MaxTicks == 2
\* A relay query returns at most MaxBatch events.
MaxBatch == 2
\* Ledger capacities.  The code's 100 / 200 / 1000 are scaled down so that a
\* run can fill the ledger; the code's shape (add, then drop the first when
\* size > capacity) is kept.
CapSmall == 2
CapMid == 2
CapLarge == 3
\* The ledger operations alone are applied at most MaxInserts times.
MaxInserts == 5
\* The bot has at most MaxInFlight sends under way.
MaxInFlight == 2
\* A subscription of a bounded wait delivers at most MaxArrivals events.
MaxArrivals == 2
\* The bot is configured with MaxRelays relays and checks them at most
\* MaxChecks times.
MaxRelays == 3
MaxChecks == 3
\* insertSorted is applied to arrays of at most MaxArray events.
MaxArray == 3
\* At most MaxPosts invocations of a webhook handler wait for the sink at a
\* time, and those that do carry the same event.
MaxPosts == 2

(***************************************************************************)
(* Program constants (seconds unless said otherwise).                      *)
(***************************************************************************)
StartTime == 10000
TickSeconds == 1800
LookbackSeconds == 3600
ONE_HOUR == 3600000
FIVE_MINUTES == 300000

Variants ==
    {"poller", "webhook", "webhook_recent", "webhook_simple", "bot", "config_endpoint"}

\* processedEvents.size > N of each variant.
Capacity(v) ==
    CASE v = "webhook" -> CapSmall
      [] v = "poller" -> CapMid
      [] v = "webhook_recent" -> CapMid
      [] v = "webhook_simple" -> CapMid
      [] v = "bot" -> CapLarge
      [] v = "ledger" -> CapLarge
      [] v = "config_endpoint" -> 0      \* holds no ledger
      [] OTHER -> 0                      \* nor do the helpers taken on their own

(***************************************************************************)
(* Events.  An event is content-addressed: a genuine event's id fixes its  *)
(* created_at and kind.  hashOk is getEventHash(event) === event.id, sigOk *)
(* is the signature verifying over the id.                                 *)
(***************************************************************************)
EventIds == 1..5

GenuineCreatedAt(id) ==
    CASE id = 1 -> 2800      \* 7200 s before StartTime
      [] id = 2 -> 9600
      [] id = 3 -> 9900
      [] id = 4 -> 9900      \* same second as 3
      [] id = 5 -> 9900

GenuineKind(id) == IF id = 5 THEN 7 ELSE 1

Genuine(id) ==
    [id |-> id, created_at |-> GenuineCreatedAt(id), kind |-> GenuineKind(id),
     hashOk |-> TRUE, sigOk |-> TRUE]

\* A copy of a genuine event carrying a signature that does not verify.
BadSignature(id) == [Genuine(id) EXCEPT !.sigOk = FALSE]

\* A genuine event's id on altered content (here: a timestamp a minute ahead
\* of the clock at start).
HashMismatch(id) ==
    [Genuine(id) EXCEPT !.created_at = StartTime + 60, !.hashOk = FALSE]

Events ==
    {Genuine(id) : id \in EventIds}
        \cup {BadSignature(id) : id \in {1, 3}}
        \cup {HashMismatch(id) : id \in {3}}

NoEvent == [id |-> 0, created_at |-> 0, kind |-> 0, hashOk |-> FALSE, sigOk |-> FALSE]

\* validateEvent(event) && verifySignature(event): the nostr-tools oracle.
Valid(e) == e.hashOk /\ e.sigOk

(***************************************************************************)
(* The dedup ledger: a JavaScript Set, which iterates in insertion order   *)
(* and ignores the add of a member.  Modelled as the sequence of members   *)
(* in insertion order.                                                     *)
(***************************************************************************)
Has(l, id) == \E i \in 1..Len(l) : l[i] = id

SetAdd(l, id) == IF Has(l, id) THEN l ELSE Append(l, id)

\* A ledger that evicts the id added last instead of the one added first.
DeleteLast(l) == SubSeq(l, 1, Len(l) - 1)

\* processedEvents.delete(processedEvents.values().next().value)
DeleteFirst(l) == Tail(l)

\* A ledger that is never trimmed.
markEventProcessedUntrimmed(l, id, cap) == SetAdd(l, id)

\* add(id); if (size > cap) delete the first
markEventProcessed(l, id, cap) ==
    LET added == SetAdd(l, id)
    IN  IF Len(added) > cap THEN DeleteFirst(added) ELSE added

Ids(l) == {l[i] : i \in 1..Len(l)}

(***************************************************************************)
(* The configuration of src/unnamed/part_007 as the module is loaded: from *)
(* the environment.                                                        *)
(***************************************************************************)
EnvConfig ==
    [pubkey |-> "env_pubkey", discordWebhookUrl |-> "env_url",
     relayUrls |-> <<"relay.nostr.band", "relay.damus.io">>,
     preferredClient |-> "all"]

(***************************************************************************)
(* State.                                                                  *)
(***************************************************************************)
VARIABLES
    variant,       \* the deployment variant of this process
    now,           \* the clock, in seconds
    ledger,        \* processedEvents
    lastSeen,      \* cache.lastSeen (poller)
    lastProcessedTimestamp,  \* config.lastProcessedTimestamp, ms (webhook_simple)
    pc,            \* position of the poll cycle: "idle", "fallback" or "loop"
    sortedEvents,  \* the batch of the running poll cycle, sorted
    idx,           \* index of the next event of sortedEvents
    since,         \* the query lower bound of the running poll cycle
    newLastSeen,   \* the running maximum of the poll cycle
    attempted,     \* the ids the running poll cycle has handed to the sink
    knownAtStart,  \* the ids of the running cycle's batch that the ledger held as it began
    failed,        \* the ids whose last delivery by a poll cycle of this process failed
    config,        \* the configuration a request can update (src/unnamed/part_007)
    posts,         \* the bag of events whose webhook invocation waits for the sink
    inflight,      \* the events whose sendToDiscord call is under way (bot)
    delivered,     \* the sink: the ids of the events it has answered OK to
    history,       \* SpecLedger: the ids added to the ledger, in the order of the calls
    lastOp,        \* what the last step did
    wait,          \* the bounded wait on a source (fetchUserMetadata, fetchOriginalEvent)
    sortedArray,   \* the array insertSorted is applied to
    boot           \* the bot's start: subscribeToNostrEvents and its retry timer

vars == <<variant, now, ledger, lastSeen, lastProcessedTimestamp, pc, sortedEvents,
          idx, since, newLastSeen, attempted, knownAtStart, failed, config, posts,
          inflight, delivered,
          history, lastOp, wait, sortedArray, boot>>

\* The state of the helpers that are modelled on their own.
sideVars == <<wait, sortedArray, boot>>

pollVars == <<pc, sortedEvents, idx, since, newLastSeen, attempted, knownAtStart>>

\* op: the operation; ev: the event it processed; outcome: what was decided
\* about ev (the reason the code logs); sent: a sink request carrying ev was
\* issued; test: a connectivity test message was posted to the sink; known:
\* ev.id was in the ledger before the step; again: the sink answered OK to an
\* event it had answered OK to before; full: the ledger was at its capacity
\* before the step.  Of a poll cycle's query: fetched, what the relays
\* answered; batch, the events array before it is sorted.  Of a poll cycle's
\* send: hint, the retryAfter that sendToDiscord returned; pushed, the entry
\* added to the results the cycle returns.  Of an HTTP request: reply, the
\* answer; secret and payload, what a configuration update carried.  Of a
\* call of the bot's sendToDiscord: threw, the call rejected.
\* An absent value (undefined, null) is the empty tuple, a present one <<v>>.
(***************************************************************************)
(* Requests that carry no event: a configuration update (a POST whose      *)
(* payload has no id, pubkey and sig) and a GET.                           *)
(***************************************************************************)
\* The request's secret header: absent, different from CONFIG_SECRET, equal.
Secrets == {"none", "wrong", "right"}

NoPayload ==
    [nostrPubkey |-> <<>>, discordWebhook |-> <<>>, relays |-> <<>>,
     preferredClient |-> <<>>]

\* Payloads of a configuration update: none of the fields, an npub, an npub
\* that does not decode beside a webhook URL, a webhook URL alone, the two
\* other fields, all four with a hex key.
ConfigPayloads ==
    {NoPayload,
     [NoPayload EXCEPT !.nostrPubkey = <<"npubA">>],
     [NoPayload EXCEPT !.nostrPubkey = <<"npubBad">>, !.discordWebhook = <<"posted_url">>],
     [NoPayload EXCEPT !.discordWebhook = <<"posted_url">>],
     [NoPayload EXCEPT !.relays = <<"relay.one,relay.two">>, !.preferredClient = <<"primal">>],
     [nostrPubkey |-> <<"hexA">>, discordWebhook |-> <<"posted_url">>,
      relays |-> <<"relay.one,relay.two">>, preferredClient |-> <<"primal">>]}

\* pubkey.startsWith('npub')
StartsWithNpub(key) == key \in {"npubA", "npubBad"}

\* nip19.decode(pubkey).data, the empty tuple when decode throws
Decode(key) == IF key = "npubA" THEN <<"hexA">> ELSE <<>>

\* relays.split(',')
Split(relays) ==
    IF relays = "relay.one,relay.two" THEN <<"relay.one", "relay.two">>
    ELSE <<relays>>

\* updateConfig returns { success: false, error: 'Invalid npub format' }
UpdateFails(payload) ==
    /\ payload.nostrPubkey # <<>>
    /\ StartsWithNpub(payload.nostrPubkey[1])
    /\ Decode(payload.nostrPubkey[1]) = <<>>

\* An updateConfig that changes nothing.
updateConfigNothing(c, payload) == c

\* updateConfig(newConfig) of src/unnamed/part_007: the configuration after it
updateConfig(c, payload) ==
    IF UpdateFails(payload) THEN c
    ELSE [pubkey |->
              IF payload.nostrPubkey = <<>> THEN c.pubkey
              ELSE IF StartsWithNpub(payload.nostrPubkey[1])
                   THEN Decode(payload.nostrPubkey[1])[1]
                   ELSE payload.nostrPubkey[1],
          discordWebhookUrl |->
              IF payload.discordWebhook = <<>> THEN c.discordWebhookUrl
              ELSE payload.discordWebhook[1],
          relayUrls |->
              IF payload.relays = <<>> THEN c.relayUrls ELSE Split(payload.relays[1]),
          preferredClient |->
              IF payload.preferredClient = <<>> THEN c.preferredClient
              ELSE payload.preferredClient[1]]

\* The HTTP answer of a webhook handler to a POST carrying an event, by what
\* was decided about the event: the status code, and the body's status (or
\* "error" for a body that carries an error).
NoReply == [statusCode |-> 0, status |-> "none"]

\* handleNostrEvent of src/functions/webhook.js
WebhookReply(outcome) ==
    CASE outcome = "in_ledger" -> [statusCode |-> 200, status |-> "already_processed"]
      [] outcome = "invalid" -> [statusCode |-> 400, status |-> "error"]
      [] outcome = "ignored_kind" -> [statusCode |-> 200, status |-> "ignored_non_text_event"]
      [] outcome = "sent" -> [statusCode |-> 200, status |-> "forwarded_to_discord"]
      [] OTHER -> [statusCode |-> 500, status |-> "error"]

\* exports.handler of src/unnamed/part_000: whatever isEventProcessed returns
\* true for is answered as skipped, "Event already processed".
RecentReply(outcome) ==
    CASE outcome \in {"in_ledger", "invalid_hash", "too_old"} ->
            [statusCode |-> 200, status |-> "skipped"]
      [] outcome = "invalid" -> [statusCode |-> 400, status |-> "error"]
      [] outcome = "sent" -> [statusCode |-> 200, status |-> "success"]
      [] OTHER -> [statusCode |-> 500, status |-> "error"]

\* exports.handler of src/unnamed/part_007: result.success ? 200 : 400
SimpleReply(outcome) ==
    CASE outcome \in {"in_ledger", "invalid_hash", "too_old", "likely_duplicate"} ->
            [statusCode |-> 200, status |-> "already_processed"]
      [] outcome = "sent" -> [statusCode |-> 200, status |-> "sent"]
      [] OTHER -> [statusCode |-> 400, status |-> "error"]

Reply(v, op, outcome) ==
    IF op # "webhook" \/ outcome = "started" THEN NoReply
    ELSE CASE v = "webhook" -> WebhookReply(outcome)
           [] v = "webhook_recent" -> RecentReply(outcome)
           [] v = "webhook_simple" -> SimpleReply(outcome)
           [] OTHER -> NoReply

NoEntry == [id |-> 0, status |-> "none", error |-> <<>>, retryAfter |-> <<>>]

Op(op, e, outcome, sent, test) ==
    [op |-> op, ev |-> e, outcome |-> outcome, sent |-> sent, test |-> test,
     known |-> Has(ledger, e.id), again |-> (outcome = "sent" /\ e.id \in delivered),
     full |-> Len(ledger) >= Capacity(variant),
     fetched |-> <<>>, batch |-> <<>>, hint |-> <<>>, pushed |-> NoEntry,
     reply |-> Reply(variant, op, outcome), secret |-> "none", payload |-> NoPayload,
     threw |-> FALSE]

\* What a source delivers to a bounded wait: an event whose content parses,
\* or one whose content does not.
Arrivals ==
    {[content |-> "meta_a", parsable |-> TRUE],
     [content |-> "meta_b", parsable |-> TRUE],
     [content |-> "garbage", parsable |-> FALSE]}

\* No wait has been asked for.  arrived is what the subscription of the call
\* has delivered, cache is cache.userMetadata.
NoWait ==
    [fn |-> "none", arg |-> "none", state |-> "idle", value |-> "none", timer |-> FALSE,
     sub |-> FALSE, arrived |-> <<>>, waited |-> FALSE, timedOut |-> FALSE,
     cache |-> "none"]

\* relayUrls
Relays == 1..MaxRelays

\* The bot process as the module is loaded: nothing called yet.
NoBoot ==
    [pubkey |-> TRUE, discordWebhookUrl |-> TRUE, phase |-> "load",
     results |-> [r \in Relays |-> "none"], checks |-> 0, connected |-> FALSE,
     timers |-> 0, scheduled |-> 0, subs |-> 0, userMetadata |-> "null"]

\* The arrays insertSorted is given: sorted by created_at, one event per id.
SortedArrays ==
    {a \in UNION {[1..n -> Events] : n \in 0..(MaxArray - 1)} :
        \A i, j \in 1..Len(a) :
            i < j => (a[i].created_at <= a[j].created_at /\ a[i].id # a[j].id)}

Init ==
    /\ variant \in Variants \cup {"ledger", "wait", "insert", "boot"}
    /\ boot \in IF variant = "boot"
                THEN {[NoBoot EXCEPT !.pubkey = p, !.discordWebhookUrl = u] : p, u \in BOOLEAN}
                ELSE {NoBoot}
    /\ wait = NoWait
    /\ sortedArray \in IF variant = "insert" THEN SortedArrays ELSE {<<>>}
    /\ now = StartTime
    /\ ledger = <<>>
    /\ lastSeen = 0
    /\ lastProcessedTimestamp = StartTime * 1000
    /\ pc = "idle"
    /\ sortedEvents = <<>>
    /\ idx = 1
    /\ since = 0
    /\ newLastSeen = 0
    /\ delivered = {}
    /\ attempted = {}
    /\ knownAtStart = {}
    /\ failed = {}
    /\ config = EnvConfig
    /\ posts = EmptyBag
    /\ inflight = {}
    /\ lastOp = [op |-> "init", ev |-> NoEvent, outcome |-> "none", sent |-> FALSE,
                 test |-> FALSE, known |-> FALSE, again |-> FALSE, full |-> FALSE,
                 fetched |-> <<>>, batch |-> <<>>, hint |-> <<>>,
                 pushed |-> NoEntry, reply |-> NoReply, secret |-> "none",
                 payload |-> NoPayload, threw |-> FALSE]
    /\ history = <<>>

(***************************************************************************)
(* The environment: the clock and the process being restarted.             *)
(***************************************************************************)
\* The variants whose handlers read the clock; to the others time is nothing.
ClockReaders == {"poller", "webhook_recent", "webhook_simple"}

\* The poll cycle reads the clock once, as it starts; the clock is advanced
\* between cycles.  A webhook invocation waits seconds for the sink (the
\* metadata lookup times out after 5 s), a tick is TickSeconds: the clock is
\* advanced between invocations.
Tick ==
    /\ variant \in ClockReaders
    /\ pc = "idle"
    /\ posts = EmptyBag
    /\ now < StartTime + MaxTicks * TickSeconds
    /\ now' = now + TickSeconds
    /\ lastOp' = Op("tick", NoEvent, "none", FALSE, FALSE)
    /\ UNCHANGED <<sideVars, variant, config, posts, failed, history, inflight, ledger, lastSeen, lastProcessedTimestamp, pollVars, delivered>>

\* A cold start: the module is loaded again, so every module-level variable
\* has its initial value; what the sink received stays received.
Restart ==
    /\ ledger' = <<>>
    /\ lastSeen' = 0
    /\ lastProcessedTimestamp' = now * 1000
    /\ pc' = "idle"
    /\ sortedEvents' = <<>>
    /\ idx' = 1
    /\ since' = 0
    /\ newLastSeen' = 0
    /\ attempted' = {}
    /\ knownAtStart' = {}
    /\ inflight' = {}
    /\ failed' = {}
    /\ config' = EnvConfig
    /\ posts' = EmptyBag
    /\ lastOp' = Op("restart", NoEvent, "none", FALSE, FALSE)
    /\ UNCHANGED <<sideVars, variant, history, now, delivered>>

(***************************************************************************)
(* The sources.  pool.list(relays, [filter]) answers with events matching  *)
(* filter = {authors, kinds: [1], since}, in the order they arrived; the   *)
(* pool drops an event whose id it has already seen.                       *)
(***************************************************************************)
\* Relays that answer with events older than the filter's since.
MatchingAnyTime(s) == {e \in Events : e.kind = 1}

\* An event matches the filter: kinds has its kind, created_at >= since.
Matching(s) == {e \in Events : e.kind = 1 /\ e.created_at >= s}

DistinctIds(b) == \A i, j \in 1..Len(b) : i # j => b[i].id # b[j].id

\* What relays deliver: any matching events, an event possibly twice.
RawBatches(s) == UNION {[1..n -> Matching(s)] : n \in 0..MaxBatch}

Batches(s) == {b \in RawBatches(s) : DistinctIds(b)}

\* A sort that puts an event before the events of its own created_at.
RECURSIVE InsertBeforeEqual(_, _)
InsertBeforeEqual(s, e) ==
    IF s = <<>> THEN <<e>>
    ELSE IF Head(s).created_at - e.created_at >= 0
         THEN <<e>> \o s
         ELSE <<Head(s)>> \o InsertBeforeEqual(Tail(s), e)

\* Position at which Array.prototype.sort's (stable) merge leaves e: after
\* every element that does not compare greater.
RECURSIVE InsertByCreatedAt(_, _)
InsertByCreatedAt(s, e) ==
    IF s = <<>> THEN <<e>>
    ELSE IF Head(s).created_at - e.created_at > 0
         THEN <<e>> \o s
         ELSE <<Head(s)>> \o InsertByCreatedAt(Tail(s), e)

\* A cycle that takes the events in the order the relays delivered them.
SortArrival(s) == s

\* events.sort((a, b) => a.created_at - b.created_at)
RECURSIVE SortByCreatedAt(_)
SortByCreatedAt(s) ==
    IF s = <<>> THEN <<>>
    ELSE InsertByCreatedAt(SortByCreatedAt(SubSeq(s, 1, Len(s) - 1)), s[Len(s)])

\* A merge that pushes every fallback event.
MergeFallbackAll(events, fallbackEvents) == events \o fallbackEvents

\* for (const event of fallbackEvents) if (!events.some(...)) events.push(event)
RECURSIVE MergeFallback(_, _)
MergeFallback(events, fallbackEvents) ==
    IF fallbackEvents = <<>> THEN events
    ELSE LET e == Head(fallbackEvents)
         IN  MergeFallback(IF \E i \in 1..Len(events) : events[i].id = e.id
                              THEN events ELSE Append(events, e),
                           Tail(fallbackEvents))

(***************************************************************************)
(* The poller: pollForEvents of src/functions/scheduled-poller.js.         *)
(***************************************************************************)
\* A first poll that starts at the clock instead of looking back.
SinceNow == IF lastSeen > 0 THEN lastSeen ELSE now

\* A poll that always looks back from the clock and ignores the cursor.
SinceLookback == now - LookbackSeconds

\* const since = cache.lastSeen > 0 ? cache.lastSeen : now - config.lookbackSeconds
Since == IF lastSeen > 0 THEN lastSeen ELSE now - LookbackSeconds

\* The cycle enters its loop: newLastSeen = since, the batch sorted.
PollFetched(op, fetched, events) ==
    /\ pc' = "loop"
    /\ since' = Since
    /\ newLastSeen' = Since
    /\ sortedEvents' = SortByCreatedAt(events)
    /\ idx' = 1
    /\ attempted' = {}
    /\ knownAtStart' = {events[i].id : i \in {k \in 1..Len(events) : Has(ledger, events[k].id)}}
    /\ lastOp' = [Op(op, NoEvent, "none", FALSE, FALSE)
                     EXCEPT !.fetched = fetched, !.batch = events]
    /\ UNCHANGED <<sideVars, variant, config, posts, failed, history, inflight, now, ledger, lastSeen, lastProcessedTimestamp, delivered>>

\* pollForEvents returns: its locals are gone.
PollReturn ==
    /\ pc' = "idle"
    /\ sortedEvents' = <<>>
    /\ idx' = 1
    /\ since' = 0
    /\ newLastSeen' = 0
    /\ attempted' = {}
    /\ knownAtStart' = {}

\* A catch block that seeds the cursor before it returns.
PollFailedSeeded ==
    /\ lastOp' = Op("poll_end", NoEvent, "error", FALSE, FALSE)
    /\ PollReturn
    /\ lastSeen' = Since
    /\ UNCHANGED <<sideVars, variant, config, posts, failed, history, inflight, now, ledger, lastProcessedTimestamp, delivered>>

\* A query that throws lands in the catch block: an error result.
PollFailed ==
    /\ lastOp' = Op("poll_end", NoEvent, "error", FALSE, FALSE)
    /\ PollReturn
    /\ UNCHANGED <<sideVars, variant, config, posts, failed, history, inflight, now, ledger, lastSeen, lastProcessedTimestamp, delivered>>

\* A cycle that always tries the fallback relays.
UseFallbackAlways(events) == TRUE

\* if (events.length === 0): the fallback relays are tried
UseFallback(events) == Len(events) = 0

\* The cycle starts: since is computed and the primary relays are queried.
PollBegin ==
    /\ variant = "poller"
    /\ pc = "idle"
    /\ \/ \E primary \in Batches(Since) :
            IF UseFallback(primary)
            THEN /\ pc' = "fallback"
                 /\ since' = Since
                 /\ sortedEvents' = primary
                 /\ lastOp' = [Op("poll_begin", NoEvent, "none", FALSE, FALSE)
                                  EXCEPT !.fetched = primary, !.batch = primary]
                 /\ UNCHANGED <<sideVars, variant, config, posts, failed, history, inflight, now, ledger, lastSeen,
                                lastProcessedTimestamp, idx, newLastSeen, attempted, knownAtStart,
                                delivered>>
            ELSE PollFetched("poll_begin", primary, primary)
       \/ PollFailed

\* The fallback relays are queried and their events merged into the batch.
PollFallback ==
    /\ variant = "poller"
    /\ pc = "fallback"
    /\ \/ \E fallbackEvents \in RawBatches(since) :
            PollFetched("poll_fallback", fallbackEvents,
                        MergeFallback(sortedEvents, fallbackEvents))
       \/ PollFailed

\* A poll cycle that validates an event before it consults the ledger.
PollVerdictValidFirst(l, event) ==
    IF ~Valid(event) THEN "invalid"
    ELSE IF Has(l, event.id) THEN "in_ledger"
    ELSE "send"

\* What the loop body decides about an event before any sink request:
\* processedEvents.has(event.id), then validateEvent and verifySignature.
PollVerdict(l, event) ==
    IF Has(l, event.id) THEN "in_ledger"
    ELSE IF ~Valid(event) THEN "invalid"
    ELSE "send"

\* if (event.created_at > newLastSeen) newLastSeen = event.created_at
AdvanceSeen(seen, event) == IF event.created_at > seen THEN event.created_at ELSE seen

\* The sink's answers to a delivery: OK, 429 with or without a Retry-After
\* header, another error status.
RetryAfterHeaders == {<<>>, <<7>>}

SinkAnswers ==
    {[status |-> 200, header |-> <<>>], [status |-> 500, header |-> <<>>]}
        \cup {[status |-> 429, header |-> h] : h \in RetryAfterHeaders}

Outcome(answer) ==
    CASE answer.status = 200 -> "sent"
      [] answer.status = 429 -> "rate_limited"
      [] OTHER -> "failed"

\* parseInt(retryAfter || '5', 10)
ParseRetryAfter(header) == IF header = <<>> THEN 5 ELSE header[1]

\* What sendToDiscord of the poller returns for an answer of the sink.
SendResult(answer) ==
    CASE answer.status = 200 ->
            [success |-> TRUE, error |-> <<>>, retryAfter |-> <<>>]
      [] answer.status = 429 ->
            [success |-> FALSE,
             error |-> <<"Discord rate limit exceeded. Retry after", answer.header>>,
             retryAfter |-> <<ParseRetryAfter(answer.header)>>]
      [] OTHER ->
            [success |-> FALSE, error |-> <<"Discord API error", answer.status>>,
             retryAfter |-> <<>>]

\* The entry pollForEvents pushes to results for an event it tried to send.
ResultEntry(event, result) ==
    IF result.success
    THEN [id |-> event.id, status |-> "sent", error |-> <<>>, retryAfter |-> <<>>]
    ELSE [id |-> event.id, status |-> "failed", error |-> result.error,
          retryAfter |-> <<>>]

\* A loop that passes over the event that follows one it handed to the sink.
NextIndexSkip(i, result) == i + 2

\* A loop that stays on an event until the sink has accepted it.
NextIndexRetry(i, result) == IF result.success THEN i + 1 ELSE i

\* for (const event of sortedEvents): the next event, whatever the result
NextIndex(i, result) == i + 1

\* One iteration of the loop over sortedEvents.
PollEvent ==
    /\ variant = "poller"
    /\ pc = "loop"
    /\ idx <= Len(sortedEvents)
    /\ LET event == sortedEvents[idx]
           seen == AdvanceSeen(newLastSeen, event)
           verdict == PollVerdict(ledger, event)
       IN  IF verdict # "send"
           THEN \* continue: an already processed or an invalid event is skipped
                /\ newLastSeen' = seen
                /\ idx' = idx + 1
                /\ lastOp' = Op("poll", event, verdict, FALSE, FALSE)
                /\ UNCHANGED <<sideVars, variant, config, posts, failed, history, inflight, now, ledger, lastSeen, lastProcessedTimestamp,
                               pc, sortedEvents, since, attempted, knownAtStart, delivered>>
           ELSE \/ \* the connectivity test is not answered OK: return an error
                   /\ \E posted \in BOOLEAN :
                        lastOp' = Op("poll_end", event, "error", FALSE, posted)
                   /\ PollReturn
                   /\ UNCHANGED <<sideVars, variant, config, posts, failed, history, inflight, now, ledger, lastSeen, lastProcessedTimestamp,
                                  delivered>>
                \/ \* the test is answered OK, the event is sent
                   \E answer \in SinkAnswers :
                      LET result == SendResult(answer)
                      IN  /\ ledger' = IF result.success
                                       THEN markEventProcessed(ledger, event.id,
                                                               Capacity(variant))
                                       ELSE ledger
                          /\ delivered' = IF result.success
                                          THEN delivered \cup {event.id}
                                          ELSE delivered
                          /\ attempted' = attempted \cup {event.id}
                          /\ failed' = IF result.success
                                       THEN failed \ {event.id}
                                       ELSE failed \cup {event.id}
                          /\ newLastSeen' = seen
                          /\ idx' = NextIndex(idx, result)
                          /\ lastOp' = [Op("poll", event, Outcome(answer), TRUE, TRUE)
                                           EXCEPT !.hint = result.retryAfter,
                                                  !.pushed = ResultEntry(event, result)]
                          /\ UNCHANGED <<sideVars, variant, config, posts, history, inflight, now,
                                         lastSeen, lastProcessedTimestamp, pc,
                                         sortedEvents, since, knownAtStart>>

\* After the loop: cache.lastSeen = newLastSeen; return { success: true, ... }
PollEnd ==
    /\ variant = "poller"
    /\ pc = "loop"
    /\ idx > Len(sortedEvents)
    /\ lastSeen' = newLastSeen
    /\ PollReturn
    /\ lastOp' = Op("poll_end", NoEvent, "success", FALSE, FALSE)
    /\ UNCHANGED <<sideVars, variant, config, posts, failed, history, inflight, now, ledger, lastProcessedTimestamp, delivered>>

(***************************************************************************)
(* The webhook handlers.  A POST carrying an event is decided upon in one   *)
(* synchronous stretch; the handlers of webhook.js and part_000 then await *)
(* the metadata and the sink, and another invocation can run meanwhile.    *)
(* part_007 is taken one invocation at a time.  The sink's answer is the   *)
(* input.                                                                  *)
(***************************************************************************)
\* An age test that compares seconds with milliseconds.
TooOldSeconds(event, t) == t - event.created_at > ONE_HOUR

\* Date.now() - event.created_at * 1000 > ONE_HOUR
TooOld(event, t) == t * 1000 - event.created_at * 1000 > ONE_HOUR

\* The handler's steps shared by the webhook variants once an event is to be
\* sent: the sink answers OK (the id is marked), or it does not.
Deliver(op, event) ==
    \/ /\ ledger' = markEventProcessed(ledger, event.id, Capacity(variant))
       /\ delivered' = delivered \cup {event.id}
       /\ lastOp' = Op(op, event, "sent", TRUE, FALSE)
    \/ /\ \E answer \in {"rate_limited", "failed"} :
            lastOp' = Op(op, event, answer, TRUE, FALSE)
       /\ UNCHANGED <<ledger, delivered>>

Skip(op, event, verdict) ==
    /\ lastOp' = Op(op, event, verdict, FALSE, FALSE)
    /\ UNCHANGED <<ledger, delivered>>

\* A webhook handler that does not consult the ledger.
WebhookVerdictNoLedger(l, event) ==
    IF ~Valid(event) THEN "invalid"
    ELSE IF event.kind # 1 THEN "ignored_kind"
    ELSE "send"

\* handleNostrEvent of src/functions/webhook.js, up to the sink request.
WebhookVerdict(l, event) ==
    IF Has(l, event.id) THEN "in_ledger"
    ELSE IF ~Valid(event) THEN "invalid"
    ELSE IF event.kind # 1 THEN "ignored_kind"
    ELSE "send"

\* The invocation reaches its first await: it is one of those that wait.  An
\* invocation reads the ledger at its own id only, so the invocations that
\* meet in the ledger are those for one event: at most MaxPosts invocations
\* wait at a time, all of them for the same event.
StartPost(event) ==
    /\ BagCardinality(posts) < MaxPosts
    /\ \A waiting \in BagToSet(posts) : waiting = event
    /\ posts' = posts (+) SetToBag({event})
    /\ lastOp' = Op("webhook", event, "started", FALSE, FALSE)
    /\ UNCHANGED <<ledger, delivered>>

WebhookPost ==
    /\ variant = "webhook"
    /\ \E event \in Events :
        LET verdict == WebhookVerdict(ledger, event)
        IN  IF verdict = "send" THEN StartPost(event)
            ELSE Skip("webhook", event, verdict) /\ UNCHANGED posts
    /\ UNCHANGED <<sideVars, variant, config, failed, history, inflight, now, lastSeen,
                   lastProcessedTimestamp, pollVars>>

\* An invocation that waits goes on: the sink answers, and on OK the id is
\* marked (webhook.js 160-186, part_000 166-183).
PostDone ==
    /\ variant \in {"webhook", "webhook_recent"}
    /\ \E event \in BagToSet(posts) :
        /\ posts' = posts (-) SetToBag({event})
        /\ Deliver("webhook", event)
    /\ UNCHANGED <<sideVars, variant, config, failed, history, inflight, now, lastSeen,
                   lastProcessedTimestamp, pollVars>>

\* exports.handler and isEventProcessed of src/unnamed/part_000, up to the
\* sink request.
RecentVerdict(l, event, t) ==
    IF Has(l, event.id) THEN "in_ledger"
    ELSE IF ~event.hashOk THEN "invalid_hash"
    ELSE IF TooOld(event, t) THEN "too_old"
    ELSE IF ~Valid(event) THEN "invalid"
    ELSE "send"

RecentPost ==
    /\ variant = "webhook_recent"
    /\ \E event \in Events :
        LET verdict == RecentVerdict(ledger, event, now)
        IN  IF verdict = "send" THEN StartPost(event)
            ELSE Skip("webhook", event, verdict) /\ UNCHANGED posts
    /\ UNCHANGED <<sideVars, variant, config, failed, history, inflight, now, lastSeen,
                   lastProcessedTimestamp, pollVars>>

\* processNostrEvent, sendToDiscord and isEventProcessed of
\* src/unnamed/part_007, up to the sink request.
SimpleVerdict(l, event, t, lastTime) ==
    IF ~Valid(event) THEN "invalid"
    ELSE IF event.kind # 1 THEN "ignored_kind"
    ELSE IF Has(l, event.id) THEN "in_ledger"
    ELSE IF ~event.hashOk THEN "invalid_hash"
    ELSE IF TooOld(event, t) THEN "too_old"
    ELSE IF event.created_at * 1000 < lastTime
            /\ lastTime - event.created_at * 1000 < FIVE_MINUTES
         THEN "likely_duplicate"
    ELSE "send"

SimplePost ==
    /\ variant = "webhook_simple"
    /\ \E event \in Events :
        LET verdict == SimpleVerdict(ledger, event, now, lastProcessedTimestamp)
        IN  IF verdict = "send"
            THEN /\ Deliver("webhook", event)
                 \* markEventProcessed sets config.lastProcessedTimestamp
                 /\ lastProcessedTimestamp' =
                        IF lastOp'.outcome = "sent" THEN now * 1000
                        ELSE lastProcessedTimestamp
            ELSE IF verdict = "likely_duplicate"
            THEN \* isEventProcessed marks the event it takes for a duplicate
                 /\ ledger' = markEventProcessed(ledger, event.id, Capacity(variant))
                 /\ lastProcessedTimestamp' = now * 1000
                 /\ lastOp' = Op("webhook", event, verdict, FALSE, FALSE)
                 /\ UNCHANGED delivered
            ELSE /\ Skip("webhook", event, verdict)
                 /\ UNCHANGED lastProcessedTimestamp
    /\ UNCHANGED <<sideVars, variant, config, posts, failed, history, inflight, now, lastSeen, pollVars>>

(***************************************************************************)
(* The long-running bot of src/index.js.                                   *)
(***************************************************************************)
\* sendToDiscord(event), up to the sink request.
BotSendVerdict(l, event) == IF Has(l, event.id) THEN "in_ledger" ELSE "send"

\* A subscription handler that does not validate the event.
BotVerdictUnchecked(l, event) == BotSendVerdict(l, event)

\* The sub.on('event') handler: validate, then sendToDiscord.
BotVerdict(l, event) ==
    IF ~Valid(event) THEN "invalid" ELSE BotSendVerdict(l, event)

\* What the subscription delivers: filters = [{authors, kinds: [1], since}],
\* MONITORED_EVENT_KINDS being '1' by default.
Subscribed == {e \in Events : e.kind = 1}

\* What a request of the bot to the sink comes to: an OK answer, another
\* answer (the bot reads response.ok only), or fetch rejecting.
BotSinkAnswers == {"sent", "failed", "network_error"}

\* A sendToDiscord without its try/catch: a rejecting fetch rejects the call.
BotRejectsOnError(answer) == answer = "network_error"

\* The body of sendToDiscord is one try block whose catch logs the error:
\* the call rejects for no answer.
BotRejects(answer) == FALSE

\* sendToDiscord from its request on: the id is added when the answer is OK.
BotDeliver(op, event) ==
    \E answer \in BotSinkAnswers :
        /\ ledger' = IF answer = "sent"
                     THEN markEventProcessed(ledger, event.id, Capacity(variant))
                     ELSE ledger
        /\ delivered' = IF answer = "sent" THEN delivered \cup {event.id} ELSE delivered
        /\ lastOp' = [Op(op, event, answer, TRUE, FALSE)
                         EXCEPT !.threw = BotRejects(answer)]

\* The handler does not await sendToDiscord: it returns with the send under
\* way, and the next event is handled while that send waits its two seconds
\* and for the sink's answer.
BotEvent ==
    /\ variant = "bot"
    /\ \E event \in Subscribed :
        LET verdict == BotVerdict(ledger, event)
        IN  IF verdict = "send"
            THEN /\ event \notin inflight
                 /\ Cardinality(inflight) < MaxInFlight
                 /\ inflight' = inflight \cup {event}
                 /\ lastOp' = Op("subscription", event, "started", FALSE, FALSE)
                 /\ UNCHANGED <<ledger, delivered>>
            ELSE /\ Skip("subscription", event, verdict)
                 /\ UNCHANGED inflight
    /\ UNCHANGED <<sideVars, variant, config, posts, failed, history, now, lastSeen, lastProcessedTimestamp, pollVars>>

\* A send under way goes on: the request is made and the sink answers.
BotSendDone ==
    /\ variant = "bot"
    /\ \E event \in inflight :
        /\ inflight' = inflight \ {event}
        /\ BotDeliver("subscription", event)
    /\ UNCHANGED <<sideVars, variant, config, posts, failed, history, now, lastSeen, lastProcessedTimestamp, pollVars>>

\* sendToDiscord is exported and called with an event of the caller's making
\* (src/test.js).
DirectSend ==
    /\ variant = "bot"
    /\ \E event \in Events :
        LET verdict == BotSendVerdict(ledger, event)
        IN  IF verdict = "send" THEN BotDeliver("direct", event)
            ELSE Skip("direct", event, verdict)
    /\ UNCHANGED <<sideVars, variant, config, posts, failed, history, inflight, now, lastSeen, lastProcessedTimestamp, pollVars>>

(***************************************************************************)
(* Configuration updates and status requests.                              *)
(***************************************************************************)
\* Everything but the configuration and lastOp.
eventVars ==
    <<sideVars, variant, now, ledger, lastSeen, lastProcessedTimestamp, pollVars, failed, posts,
      inflight, delivered, history>>

ConfigOp(outcome, secret, payload, statusCode) ==
    [Op("config", NoEvent, outcome, FALSE, FALSE)
        EXCEPT !.secret = secret, !.payload = payload,
               !.reply = [statusCode |-> statusCode,
                          status |-> IF statusCode = 200 THEN "success" ELSE "error"]]

\* exports.handler of src/unnamed/part_007, a POST without id, pubkey and sig:
\* the secret header is not read.
SimpleConfigPost ==
    /\ variant = "webhook_simple"
    /\ \E payload \in ConfigPayloads, secret \in Secrets :
        IF payload = NoPayload
        THEN /\ lastOp' = ConfigOp("invalid_payload", secret, payload, 400)
             /\ UNCHANGED config
        ELSE /\ config' = updateConfig(config, payload)
             /\ lastOp' = IF UpdateFails(payload)
                          THEN ConfigOp("invalid_npub", secret, payload, 400)
                          ELSE ConfigOp("updated", secret, payload, 200)
    /\ UNCHANGED eventVars

\* exports.handler and handleConfigUpdate of src/functions/webhook.js: no
\* secret is read and nothing is updated.
WebhookConfigPost ==
    /\ variant = "webhook"
    /\ \E payload \in ConfigPayloads, secret \in Secrets :
        lastOp' = IF payload.nostrPubkey # <<>> \/ payload.discordWebhook # <<>>
                  THEN ConfigOp("updated", secret, payload, 200)
                  ELSE ConfigOp("invalid_payload", secret, payload, 400)
    /\ UNCHANGED config
    /\ UNCHANGED eventVars

\* app.post of src/unnamed/part_007 (lines 535-573): the secret is checked,
\* the request is acknowledged, nothing is updated.
EndpointConfigPost ==
    /\ variant = "config_endpoint"
    /\ \E payload \in ConfigPayloads, secret \in Secrets :
        lastOp' = IF secret # "right"
                  THEN ConfigOp("unauthorized", secret, payload, 401)
                  ELSE IF payload.nostrPubkey = <<>> \/ payload.discordWebhook = <<>>
                  THEN ConfigOp("missing_parameters", secret, payload, 400)
                  ELSE ConfigOp("received", secret, payload, 200)
    /\ UNCHANGED config
    /\ UNCHANGED eventVars

\* The variants that answer HTTP requests.
HttpVariants ==
    {"poller", "webhook", "webhook_recent", "webhook_simple", "config_endpoint"}

\* queryStringParameters.action of a GET: none, or 'test' (read by part_007).
GetActions == {"status", "test"}

\* A status answer without content.
GetReplyNoContent(v, action) == [statusCode |-> 204, status |-> "none"]

\* The answer to a GET: the status, but to action=test part_007 answers with
\* statusCode testResult.success ? 200 : 500 where testDiscordWebhook returns
\* { message, disabled: true }.
GetReply(v, action) ==
    IF v = "webhook_simple" /\ action = "test"
    THEN [statusCode |-> 500, status |-> "test_disabled"]
    ELSE [statusCode |-> 200, status |-> "active"]

\* A GET request.  A function instance serves one invocation at a time: the
\* poller answers between poll cycles.
StatusGet ==
    /\ variant \in HttpVariants
    /\ pc = "idle"
    /\ \E action \in GetActions :
        lastOp' = [Op("get", NoEvent,
                      IF variant = "webhook_simple" THEN action ELSE "status",
                      FALSE, FALSE)
                      EXCEPT !.reply = GetReply(variant, action)]
    /\ UNCHANGED config
    /\ UNCHANGED eventVars

(***************************************************************************)
(* The bounded waits on a source: fetchOriginalEvent and fetchUserMetadata *)
(* of src/functions/scheduled-poller.js.  Each returns a promise that a    *)
(* timer or the subscription's event handler resolves; resolve() on a      *)
(* settled promise does nothing.                                           *)
(***************************************************************************)
\* Everything but the helpers' state.
mainVars ==
    <<variant, now, ledger, lastSeen, lastProcessedTimestamp, pollVars, failed, config,
      posts, inflight, delivered, history>>

\* fetchUserMetadata and fetchOriginalEvent of the poller, and the
\* fetchUserMetadata of src/index.js, which keeps no cache.
WaitFns == {"fetchUserMetadata", "fetchOriginalEvent", "fetchUserMetadata_bot"}

\* The pubkey or event id the wait is asked for; "none" is a missing one.
WaitArgs == {"none", "a", "b"}

\* resolve(v) of the promise
Resolve(w, v) ==
    IF w.state = "pending" THEN [w EXCEPT !.state = "fulfilled", !.value = v] ELSE w

\* catch (error) { ...; return null; } around pool.sub
SubThrew(w) == [w EXCEPT !.state = "fulfilled", !.value = "null"]

\* The call up to the promise it returns.
Call(w, fn, arg, subThrows) ==
    LET fresh == [NoWait EXCEPT !.fn = fn, !.arg = arg, !.cache = w.cache]
    IN  IF arg = "none"
        THEN \* if (!pubkey) return null; if (!eventId) return null
             [fresh EXCEPT !.state = "fulfilled", !.value = "null"]
        ELSE IF fn = "fetchUserMetadata" /\ w.cache # "none"
        THEN \* if (cache.userMetadata) return cache.userMetadata
             [fresh EXCEPT !.state = "fulfilled", !.value = w.cache]
        ELSE IF subThrows
        THEN SubThrew(fresh)
        ELSE [fresh EXCEPT !.state = "pending", !.timer = TRUE, !.sub = TRUE,
                           !.waited = TRUE]

\* A handler whose catch block does not resolve.
OnParseErrorSilent(w) == w

\* catch (e) { resolve(null); } of the metadata handler
OnParseError(w) == Resolve(w, "null")

\* sub.on('event', ...): clearTimeout first; fetchOriginalEvent resolves with
\* the event, fetchUserMetadata with JSON.parse(event.content), which throws
\* on content that does not parse, before unsub is reached.
OnEvent(w, a) ==
    LET seen == [w EXCEPT !.timer = FALSE, !.arrived = Append(w.arrived, a)]
    IN  IF w.fn = "fetchOriginalEvent"
        THEN Resolve([seen EXCEPT !.sub = FALSE], a.content)
        ELSE IF a.parsable
        THEN Resolve([seen EXCEPT !.cache = IF w.fn = "fetchUserMetadata"
                                            THEN a.content ELSE w.cache,
                                  !.sub = FALSE],
                     a.content)
        ELSE OnParseError(seen)

\* setTimeout(() => { sub.unsub(); resolve(null); }, 3000)
OnTimeout(w) ==
    Resolve([w EXCEPT !.timer = FALSE, !.sub = FALSE, !.timedOut = TRUE], "null")

\* A wait is asked for, once the one before it has settled.
WaitCall ==
    /\ variant = "wait"
    /\ wait.state # "pending"
    /\ \E fn \in WaitFns, arg \in WaitArgs, subThrows \in BOOLEAN :
            wait' = Call(wait, fn, arg, subThrows)
    /\ lastOp' = Op("wait_call", NoEvent, "none", FALSE, FALSE)
    /\ UNCHANGED mainVars
    /\ UNCHANGED <<sortedArray, boot>>

\* The subscription delivers an event.
WaitEvent ==
    /\ variant = "wait"
    /\ wait.sub
    /\ Len(wait.arrived) < MaxArrivals
    /\ \E a \in Arrivals : wait' = OnEvent(wait, a)
    /\ lastOp' = Op("wait_event", NoEvent, "none", FALSE, FALSE)
    /\ UNCHANGED mainVars
    /\ UNCHANGED <<sortedArray, boot>>

\* The timer fires.
WaitTimeout ==
    /\ variant = "wait"
    /\ wait.timer
    /\ wait' = OnTimeout(wait)
    /\ lastOp' = Op("wait_timeout", NoEvent, "none", FALSE, FALSE)
    /\ UNCHANGED mainVars
    /\ UNCHANGED <<sortedArray, boot>>

(***************************************************************************)
(* insertSorted of src/index.js, applied to any event.                     *)
(***************************************************************************)
\* The comparator insertSorted is given: (a, b) => a.created_at - b.created_at
compare(a, b) == a.created_at - b.created_at

\* sortedArray.findIndex(e => compare(event, e) < 0), and the array's length
\* in place of -1; positions count from 1.
position(array, event) ==
    LET before == {i \in 1..Len(array) : compare(event, array[i]) < 0}
    IN  IF before = {} THEN Len(array) + 1
        ELSE CHOOSE i \in before : \A k \in before : i <= k

insertSorted(array, event) ==
    LET at == position(array, event)
    IN  IF at <= Len(array) /\ array[at].id = event.id
        THEN array
        ELSE SubSeq(array, 1, at - 1) \o <<event>> \o SubSeq(array, at, Len(array))

InsertSorted ==
    /\ variant = "insert"
    /\ Len(sortedArray) < MaxArray
    /\ \E event \in Events :
        /\ sortedArray' = insertSorted(sortedArray, event)
        /\ lastOp' = Op("insert", event, "none", FALSE, FALSE)
    /\ UNCHANGED mainVars
    /\ UNCHANGED <<wait, boot>>

(***************************************************************************)
(* The start of the bot (src/index.js): subscribeToNostrEvents checks the  *)
(* relays, retries 30 s later when none connects, and otherwise fetches    *)
(* the profile and opens the event subscription.                           *)
(***************************************************************************)
\* The check taken to succeed whatever the relays answered.
ConnectedAlways(results) == TRUE

\* successfulConnections > 0
Connected(results) == \E r \in Relays : results[r] = "connected"

\* subscribeToNostrEvents up to its first await: the two early returns, then
\* checkRelayConnections starts one connection attempt per relay.
Subscribe(b) ==
    IF ~b.pubkey \/ ~b.discordWebhookUrl
    THEN [b EXCEPT !.phase = "returned"]
    ELSE [b EXCEPT !.phase = "checking",
                   !.results = [r \in Relays |-> "pending"],
                   !.checks = b.checks + 1]

\* The call at the end of the module.
BootCall ==
    /\ variant = "boot"
    /\ boot.phase = "load"
    /\ boot' = Subscribe(boot)
    /\ lastOp' = Op("boot_call", NoEvent, "none", FALSE, FALSE)
    /\ UNCHANGED mainVars
    /\ UNCHANGED <<wait, sortedArray>>

\* One relay's promise settles: 'connect' resolves true; 'error', a rejected
\* connect() and the 5 s timer resolve false.
RelayAnswers ==
    /\ variant = "boot"
    /\ boot.phase = "checking"
    /\ \E r \in Relays, answer \in {"connected", "failed"} :
        /\ boot.results[r] = "pending"
        /\ boot' = [boot EXCEPT !.results[r] = answer]
    /\ lastOp' = Op("relay_answer", NoEvent, "none", FALSE, FALSE)
    /\ UNCHANGED mainVars
    /\ UNCHANGED <<wait, sortedArray>>

\* Promise.all has every result: subscribeToNostrEvents goes on after
\* 'await checkRelayConnections()'.
CheckDone ==
    /\ variant = "boot"
    /\ boot.phase = "checking"
    /\ \A r \in Relays : boot.results[r] # "pending"
    /\ boot' = IF Connected(boot.results)
               THEN [boot EXCEPT !.connected = TRUE, !.phase = "metadata"]
               ELSE [boot EXCEPT !.connected = FALSE, !.phase = "returned",
                                 !.timers = boot.timers + 1,
                                 !.scheduled = boot.scheduled + 1]
    /\ lastOp' = Op("check_done", NoEvent, "none", FALSE, FALSE)
    /\ UNCHANGED mainVars
    /\ UNCHANGED <<wait, sortedArray>>

\* The 30 s timer calls subscribeToNostrEvents again.
RetryFires ==
    /\ variant = "boot"
    /\ boot.timers > 0
    /\ boot.checks < MaxChecks
    /\ boot' = Subscribe([boot EXCEPT !.timers = boot.timers - 1])
    /\ lastOp' = Op("retry", NoEvent, "none", FALSE, FALSE)
    /\ UNCHANGED mainVars
    /\ UNCHANGED <<wait, sortedArray>>

\* fetchUserMetadata resolves (a profile, or null after 10 s) and the rest of
\* subscribeToNostrEvents runs: the filters, then pool.sub.
OpenSubscription ==
    /\ variant = "boot"
    /\ boot.phase = "metadata"
    /\ \E metadata \in {"null", "meta_a"} :
        boot' = [boot EXCEPT !.userMetadata = metadata,
                             !.subs = boot.subs + 1,
                             !.phase = "subscribed"]
    /\ lastOp' = Op("subscribed", NoEvent, "none", FALSE, FALSE)
    /\ UNCHANGED mainVars
    /\ UNCHANGED <<wait, sortedArray>>

(***************************************************************************)
(* The ledger operations alone: markEventProcessed (src/unnamed/part_002)  *)
(* applied to any id, with the ids it added recorded in history.           *)
(***************************************************************************)
MarkProcessed ==
    /\ variant = "ledger"
    /\ Len(history) < MaxInserts
    /\ \E id \in EventIds :
        /\ ledger' = markEventProcessed(ledger, id, Capacity(variant))
        /\ history' = IF Has(ledger, id) THEN history ELSE Append(history, id)
        /\ lastOp' = Op("mark", [NoEvent EXCEPT !.id = id], "marked", FALSE, FALSE)
    /\ UNCHANGED <<sideVars, variant, config, posts, failed, inflight, now, lastSeen, lastProcessedTimestamp, pollVars,
                   delivered>>

(***************************************************************************)
(* Specifications: one per deployment variant, and all of them.            *)
(***************************************************************************)
InitLedger == Init /\ variant = "ledger"

SpecLedger == InitLedger /\ [][MarkProcessed]_vars

NextBoot == BootCall \/ RelayAnswers \/ CheckDone \/ RetryFires \/ OpenSubscription

InitBoot == Init /\ variant = "boot"

\* Every relay's promise settles (the 5 s timer sees to it), the 30 s timer
\* fires, and fetchUserMetadata resolves within 10 s.
SpecBoot ==
    /\ InitBoot
    /\ [][NextBoot]_vars
    /\ WF_vars(BootCall) /\ WF_vars(RelayAnswers) /\ WF_vars(CheckDone)
    /\ WF_vars(RetryFires) /\ WF_vars(OpenSubscription)

NextInsert == InsertSorted

InitInsert == Init /\ variant = "insert"

SpecInsert == InitInsert /\ [][NextInsert]_vars

NextWait == WaitCall \/ WaitEvent \/ WaitTimeout

InitWait == Init /\ variant = "wait"

\* A timer that is armed fires.
SpecWait == InitWait /\ [][NextWait]_vars /\ WF_vars(WaitTimeout)

NextPoller ==
    PollBegin \/ PollFallback \/ PollEvent \/ PollEnd \/ StatusGet \/ Tick \/ Restart

InitPoller == Init /\ variant = "poller"

SpecPoller == InitPoller /\ [][NextPoller]_vars

NextWebhook == WebhookPost \/ PostDone \/ WebhookConfigPost \/ StatusGet \/ Restart

InitWebhook == Init /\ variant = "webhook"

SpecWebhook == InitWebhook /\ [][NextWebhook]_vars

NextRecent == RecentPost \/ PostDone \/ StatusGet \/ Tick \/ Restart

InitRecent == Init /\ variant = "webhook_recent"

SpecRecent == InitRecent /\ [][NextRecent]_vars

NextSimple == SimplePost \/ SimpleConfigPost \/ StatusGet \/ Tick \/ Restart

InitSimple == Init /\ variant = "webhook_simple"

SpecSimple == InitSimple /\ [][NextSimple]_vars

NextBot == BotEvent \/ BotSendDone \/ DirectSend \/ Restart

InitBot == Init /\ variant = "bot"

SpecBot == InitBot /\ [][NextBot]_vars

Next ==
    \/ PollBegin \/ PollFallback \/ PollEvent \/ PollEnd
    \/ WebhookPost \/ RecentPost \/ PostDone \/ SimplePost
    \/ BotEvent \/ BotSendDone \/ DirectSend
    \/ SimpleConfigPost \/ WebhookConfigPost \/ EndpointConfigPost \/ StatusGet
    \/ Tick \/ Restart

InitDeployed == Init /\ variant \in Variants

Spec == InitDeployed /\ [][Next]_vars

(***************************************************************************)
(* Properties.                                                             *)
(***************************************************************************)
IngestionOps == {"poll", "webhook", "subscription"}

ProcessingOps == IngestionOps \cup {"direct"}

Min(a, b) == IF a < b THEN a ELSE b

\* C1: the poller issues at most one delivery per event id, process restarts
\* included: the sink never answers OK to an event of a poll cycle that it
\* had answered OK to before.
C1_ExactlyOnce == lastOp.op = "poll" => ~lastOp.again

\* C2: a step (poll cycle, webhook POST, live subscription or direct
\* sendToDiscord) that processes an event whose id is in the ledger issues no
\* request to the sink, starts none, and leaves the ledger as it was.  The
\* step is the one in which the handler looks the id up: the later step in
\* which a send that was already under way completes is C16's and C30's.
C2_Idempotent ==
    [][(/\ lastOp'.op \in ProcessingOps
        /\ Has(ledger, lastOp'.ev.id)
        /\ inflight \subseteq inflight'
        /\ BagCardinality(posts) <= BagCardinality(posts'))
          => (~lastOp'.sent /\ ~lastOp'.test /\ ledger' = ledger
                /\ delivered' = delivered /\ lastOp'.outcome # "started")]_vars

\* C2 happens: an event whose id was in the ledger has been processed again.
C2_Witness ==
    /\ lastOp.op \in {"poll", "webhook", "direct"}
    /\ lastOp.known
    /\ lastOp.outcome = "in_ledger"
    /\ lastOp.ev.id \in delivered

\* C3: an id is in the ledger only if the sink answered OK to a delivery of
\* that event.
C3_LedgerOnlyDelivered == Ids(ledger) \subseteq delivered

\* C4: the ledger never holds more ids than its capacity.
C4_Bounded == Len(ledger) <= Capacity(variant)

\* C4 happens: an id was delivered and added while the ledger was at capacity.
C4_Witness ==
    /\ lastOp.full
    /\ lastOp.outcome = "sent"
    /\ ~lastOp.known
    /\ Has(ledger, lastOp.ev.id)
    /\ Len(ledger) = Capacity(variant)

\* C5: the ledger holds exactly the ids added last, as many as its capacity
\* allows: adding one id more than the capacity evicts the id added first.
C5_EvictsFirstInserted ==
    LET n == Len(history)
        k == Min(n, Capacity(variant))
    IN  /\ Cardinality(Ids(ledger)) = k
        /\ Len(ledger) = k
        /\ Ids(ledger) = {history[i] : i \in (n - k + 1)..n}

\* C5 happens: capacity + 1 ids were added, the first of them the event
\* created last, and it is the one that is gone.
C5_Witness ==
    /\ Len(history) = Capacity(variant) + 1
    /\ history[1] = 3
    /\ history[2] = 1
    /\ ~Has(ledger, 3)
    /\ Has(ledger, 1)

\* C6: within one process lifetime cache.lastSeen never decreases.
C6_LastSeenMonotonic == [][lastOp'.op # "restart" => lastSeen' >= lastSeen]_vars

\* C6 happens: a poll cycle has ended without any delivery, with the cursor
\* past the start of the lookback.
C6_Witness ==
    /\ lastOp.op = "poll_end"
    /\ lastOp.outcome = "success"
    /\ lastSeen > now - LookbackSeconds
    /\ delivered = {}

\* C7: when a poll cycle returns, lastSeen is at least the largest created_at
\* of the batch, whatever was rejected and whichever request to the sink
\* failed.
C7_CursorCoversBatch ==
    [][(pc = "loop" /\ lastOp'.op = "poll_end")
          => \A i \in 1..Len(sortedEvents) :
                lastSeen' >= sortedEvents[i].created_at]_vars

C9_NoInvalidInLedger ==
    [][\A id \in Ids(ledger') \ Ids(ledger) :
          lastOp'.ev.id = id /\ Valid(lastOp'.ev)]_vars

\* C9: no ingestion path (webhook POST, poll cycle, live subscription) adds
\* the id of an invalid event to the ledger; sendToDiscord called directly
\* adds the id of whatever event the sink accepted.
C9_NoInvalidIngested ==
    [][\A id \in Ids(ledger') \ Ids(ledger) :
          /\ lastOp'.op \in ProcessingOps
          /\ lastOp'.ev.id = id
          /\ (lastOp'.op \in IngestionOps => Valid(lastOp'.ev))]_vars

\* C9 happens: the subscription has rejected a forged event, whose id is not
\* in the ledger.
C9_Witness ==
    /\ lastOp.op = "subscription"
    /\ ~Valid(lastOp.ev)
    /\ lastOp.outcome = "invalid"
    /\ ~Has(ledger, lastOp.ev.id)
    /\ ledger # <<>>

\* The event was created more than an hour before the clock of this state.
Stale(e) == (now - e.created_at) * 1000 > ONE_HOUR

C11_PreCursorWindow ==
    [][(/\ lastOp'.op = "webhook"
        /\ Valid(lastOp'.ev)
        /\ lastOp'.ev.kind = 1
        /\ ~Has(ledger, lastOp'.ev.id)
        /\ ~Stale(lastOp'.ev)
        /\ lastProcessedTimestamp > 0)
          => ((lastOp'.outcome = "likely_duplicate")
                <=> (/\ lastProcessedTimestamp - ONE_HOUR < lastOp'.ev.created_at * 1000
                     /\ lastOp'.ev.created_at * 1000
                            < lastProcessedTimestamp - FIVE_MINUTES))]_vars

\* C12: a step that decides about an event by the admission window (too old,
\* likely duplicate) leaves the ledger as it was.
C12_WindowLeavesLedger ==
    [][(lastOp'.op = "webhook" /\ lastOp'.outcome \in {"too_old", "likely_duplicate"})
          => ledger' = ledger]_vars

\* The position of the event with this id.
Pos(seq, id) == CHOOSE i \in 1..Len(seq) : seq[i].id = id

Ascending(seq) ==
    \A i, j \in 1..Len(seq) : i < j => seq[i].created_at <= seq[j].created_at

\* C13 as stated: the batch a poll cycle processes is sorted ascending by
\* created_at, events of equal created_at in the order of their ids.
C13_SortedTieById ==
    pc = "loop"
        => \A i, j \in 1..Len(sortedEvents) :
              i < j => \/ sortedEvents[i].created_at < sortedEvents[j].created_at
                       \/ /\ sortedEvents[i].created_at = sortedEvents[j].created_at
                          /\ sortedEvents[i].id < sortedEvents[j].id

\* C13: the batch a poll cycle processes holds the events the relays
\* answered, sorted ascending by created_at; events of equal created_at keep
\* the order in which the relays returned them.
C13_SortedStable ==
    (pc = "loop" /\ lastOp.op \in {"poll_begin", "poll_fallback"})
        => LET batch == lastOp.batch
           IN  /\ Len(sortedEvents) = Len(batch)
               /\ \A i \in 1..Len(batch) :
                     \E j \in 1..Len(sortedEvents) : sortedEvents[j] = batch[i]
               /\ Ascending(sortedEvents)
               /\ \A i, j \in 1..Len(batch) :
                     (i < j /\ batch[i].created_at = batch[j].created_at)
                        => Pos(sortedEvents, batch[i].id) < Pos(sortedEvents, batch[j].id)

\* C13 happens: the relays returned event 4 before event 3, created in the
\* same second; the batch has 4 before 3.
C13_Witness ==
    /\ pc = "loop"
    /\ lastOp.op = "poll_begin"
    /\ Len(sortedEvents) = 2
    /\ sortedEvents[1].id = 4
    /\ sortedEvents[2].id = 3
    /\ sortedEvents[1].created_at = sortedEvents[2].created_at

C15_FallbackOnlyWhenEmpty ==
    [][/\ lastOp'.op = "poll_begin"
            => /\ (pc' = "fallback") <=> (lastOp'.fetched = <<>>)
               /\ lastOp'.fetched # <<>>
                    => /\ pc' = "loop"
                       /\ Len(sortedEvents') = Len(lastOp'.fetched)
                       /\ \A i \in 1..Len(sortedEvents') :
                             \E j \in 1..Len(lastOp'.fetched) :
                                sortedEvents'[i] = lastOp'.fetched[j]
       /\ lastOp'.op = "poll_fallback"
            => /\ pc = "fallback"
               /\ lastOp.op = "poll_begin"
               /\ lastOp.fetched = <<>>]_vars

\* C15 happens: the primary relays answered nothing and the fallback relays
\* supplied the batch.
C15_Witness ==
    /\ pc = "loop"
    /\ lastOp.op = "poll_fallback"
    /\ Len(sortedEvents) > 0

\* C16: at most one send is under way at any moment: the send of the next
\* event starts only after the send of the previous one has completed.
C16_OneInFlight == Cardinality(inflight) <= 1

\* C17: the query lower bound of a poll is now - lookbackSeconds while
\* lastSeen is 0 and the stored lastSeen afterwards; the relays are asked for
\* nothing older.
C17_SinceSeed ==
    lastOp.op = "poll_begin"
        => /\ lastSeen = 0 => since = now - LookbackSeconds
           /\ lastSeen > 0 => since = lastSeen
           /\ \A i \in 1..Len(lastOp.fetched) : lastOp.fetched[i].created_at >= since

\* C17 happens: the first poll of a process, an hour behind the clock, has
\* fetched an event older than the clock.
C17_Witness ==
    /\ lastOp.op = "poll_begin"
    /\ lastSeen = 0
    /\ since = now - LookbackSeconds
    /\ lastOp.fetched # <<>>
    /\ lastOp.fetched[1].created_at < now

\* C18: when the sink answers 429 to an event of a poll cycle, the entry of
\* that event in the result the cycle returns carries the retryAfter that
\* sendToDiscord reported.
C18_RetryAfterSurfaced ==
    (lastOp.op = "poll" /\ lastOp.outcome = "rate_limited")
        => lastOp.pushed.retryAfter = lastOp.hint

C21_RejectionKeepsSuccess ==
    [][/\ (lastOp'.op = "poll" /\ lastOp'.outcome = "invalid")
            => /\ ~lastOp'.sent
               /\ ~lastOp'.test
               /\ pc' = "loop"
               /\ idx' = idx + 1
               /\ ledger' = ledger
       /\ (/\ pc = "loop"
           /\ lastOp'.op = "poll_end"
           /\ \E i \in 1..(idx - 1) :
                 ~Valid(sortedEvents[i]) /\ ~Has(ledger, sortedEvents[i].id))
            => lastOp'.outcome = "success"]_vars

\* C22 as stated: once lastSeen is greater than or equal to the created_at of
\* an event whose delivery failed, no later poll cycle of the process hands
\* that event to the sink.
C22_NoRetryAtCursor ==
    [][(lastOp'.op = "poll" /\ lastOp'.sent /\ lastOp'.ev.id \in failed)
          => lastSeen < lastOp'.ev.created_at]_vars

\* C22: once lastSeen is greater than the created_at of an event whose
\* delivery failed, no later poll cycle of the process hands that event to
\* the sink; while lastSeen equals its created_at the event is fetched and
\* tried again.
C22_NoRetryBehindCursor ==
    [][(lastOp'.op = "poll" /\ lastOp'.sent /\ lastOp'.ev.id \in failed)
          => lastSeen <= lastOp'.ev.created_at]_vars

\* C22 happens: the delivery of event 2 has failed, the cursor has moved past
\* it, and a later cycle has gone through its batch.
C22_Witness ==
    /\ 2 \in failed
    /\ lastSeen > GenuineCreatedAt(2)
    /\ since = lastSeen
    /\ pc = "loop"
    /\ idx > Len(sortedEvents)
    /\ Len(sortedEvents) > 0

\* C23: an event whose content hash differs from its id is not delivered and
\* is answered as invalid: an error, not "already processed" or "skipped".
C23_HashMismatchInvalid ==
    (lastOp.op \in IngestionOps /\ ~lastOp.ev.hashOk)
        => /\ ~lastOp.sent
           /\ lastOp.outcome \in {"invalid", "invalid_hash"}
           /\ lastOp.op = "webhook" => lastOp.reply.status = "error"

\* C24: an event of a kind other than 1 that a webhook handler or the live
\* subscription receives causes no request to the sink and no ledger entry.
C24_OnlyTextNotes ==
    [][(lastOp'.op \in {"webhook", "subscription"} /\ lastOp'.ev.kind # 1)
          => (~lastOp'.sent /\ ledger' = ledger /\ delivered' = delivered)]_vars

\* C25: no step posts a test message to the sink: every request to the sink
\* carries an event.
C25_NoTestPost == ~lastOp.test

\* C26: a configuration update whose secret header is missing or is not
\* CONFIG_SECRET is answered 401 and leaves every configuration field as it
\* was.
C26_SecretGuardsConfig ==
    [][(lastOp'.op = "config" /\ lastOp'.secret # "right")
          => (lastOp'.reply.statusCode = 401 /\ config' = config)]_vars

NamesKeyOrUrl(payload) == payload.nostrPubkey # <<>> \/ payload.discordWebhook # <<>>

C29_StatusReadOnly ==
    [][(lastOp'.op = "get" /\ lastOp'.outcome = "status")
          => /\ lastOp'.reply.statusCode = 200
             /\ ~lastOp'.sent
             /\ ~lastOp'.test
             /\ ledger' = ledger
             /\ lastSeen' = lastSeen
             /\ lastProcessedTimestamp' = lastProcessedTimestamp
             /\ config' = config
             /\ delivered' = delivered]_vars

\* C29 happens: the poller, holding a ledger and a cursor, has answered a
\* status request.
C29_Witness ==
    /\ lastOp.op = "get"
    /\ lastOp.outcome = "status"
    /\ lastOp.reply.statusCode = 200
    /\ ledger # <<>>
    /\ lastSeen > 0

\* C30: a webhook handler delivers no event whose id is in the ledger, also
\* when invocations for the same event interleave at their awaits: the sink
\* receives one delivery per id.
C30_InterleavedOnce ==
    [][(lastOp'.op = "webhook" /\ lastOp'.sent) => ~Has(ledger, lastOp'.ev.id)]_vars

\* C31: when the sink rejects an event of a batch, the ledger stays as it was
\* (the events delivered before it are in it, the rejected one is not), and
\* the cycle goes on to every later event of the batch: a cycle in which an
\* event was rejected does not return before the batch is exhausted.
C31_RejectionMidBatch ==
    [][/\ (lastOp'.op = "poll" /\ lastOp'.sent /\ lastOp'.outcome # "sent")
            => /\ ledger' = ledger
               /\ ~Has(ledger', lastOp'.ev.id)
               /\ pc' = "loop"
               /\ idx' = idx + 1
       /\ (pc = "loop" /\ attempted \cap failed # {} /\ lastOp'.op = "poll_end")
            => idx > Len(sortedEvents)]_vars

C33_FreshEventDelivered ==
    [][(/\ variant = "webhook_simple"
        /\ lastOp'.op = "webhook"
        /\ Valid(lastOp'.ev)
        /\ lastOp'.ev.kind = 1
        /\ now * 1000 - lastOp'.ev.created_at * 1000 < ONE_HOUR
        /\ lastOp'.ev.id \notin delivered)
          => (lastOp'.sent /\ lastOp'.reply.status # "already_processed")]_vars

\* The poller's cycles with the clock held: a cycle reads the clock in its
\* first statement only.
NextCycles ==
    PollBegin \/ PollFallback \/ PollEvent \/ PollEnd \/ StatusGet \/ Restart

\* The poller under fair scheduling: the relays and the sink answer, so an
\* awaited query or request is followed by the next statement.
SpecPollerFair ==
    /\ InitPoller
    /\ [][NextCycles]_vars
    /\ WF_vars(PollFallback)
    /\ WF_vars(PollEvent)
    /\ WF_vars(PollEnd)

\* A cycle in its loop moves to the next event of a batch that stays as it
\* is, or returns.
LoopAdvances ==
    [][(pc = "loop" /\ pc' = "loop")
          => (idx <= Len(sortedEvents) /\ idx' = idx + 1
                /\ sortedEvents' = sortedEvents)]_vars

\* When a cycle returns success and the sink answered OK to all of its
\* requests, every valid event of the batch whose id the ledger did not hold
\* as the cycle began was handed to the sink in it and delivered, and its id
\* is in the ledger unless the ledger is at capacity.
AllDelivered ==
    [][(/\ pc = "loop"
        /\ lastOp'.op = "poll_end"
        /\ lastOp'.outcome = "success"
        /\ attempted \cap failed = {})
          => \A i \in 1..Len(sortedEvents) :
                LET e == sortedEvents[i]
                IN  (Valid(e) /\ e.id \notin knownAtStart)
                        => /\ e.id \in attempted
                           /\ e.id \in delivered'
                           /\ \/ Has(ledger', e.id)
                              \/ Len(ledger') = Capacity(variant)]_vars

\* An event whose id the ledger did not hold as the cycle began is handed to
\* the sink at most once in the cycle.
OncePerCycle ==
    [][(lastOp'.op = "poll" /\ lastOp'.sent /\ lastOp'.ev.id \notin knownAtStart)
          => lastOp'.ev.id \notin attempted]_vars

C35_ErrorLeavesNoPartialState ==
    [][(lastOp'.op = "poll_end" /\ lastOp'.outcome = "error")
          => /\ lastSeen' = lastSeen
             /\ ledger' = ledger
             /\ \A i \in 1..Len(sortedEvents) :
                    Has(ledger', sortedEvents[i].id)
                        <=> sortedEvents[i].id \in knownAtStart]_vars

\* C36: a poll cycle that ends leaves lastSeen no later than the clock, and
\* a cycle that begins queries with a since no later than the clock.
C36_CursorNotInFuture ==
    [][/\ (lastOp'.op = "poll_end" /\ lastOp'.outcome = "success") => lastSeen' <= now
       /\ (lastOp'.op = "poll_begin" /\ pc' # "idle") => since' <= now]_vars

\* What a wait that was begun is to resolve with: the first event that
\* arrived (for the metadata: its parsed content), null when none arrived or
\* the first did not parse.
Expected(w) ==
    IF w.arrived # <<>> /\ (w.fn = "fetchOriginalEvent" \/ w.arrived[1].parsable)
    THEN w.arrived[1].content
    ELSE "null"

WaitSettles ==
    /\ wait.state # "rejected"
    /\ wait.state = "pending" => wait.timer
    /\ (wait.waited /\ wait.state = "fulfilled")
          => /\ wait.value = Expected(wait)
             /\ wait.arrived = <<>> => wait.timedOut

\* C37: a bounded wait on a source never rejects and resolves, once: with
\* the first event when one arrives before the timeout, with null when the
\* timeout fires first or the event does not parse; what it resolved with
\* stays.
C37_BoundedWait ==
    /\ []WaitSettles
    /\ [][(lastOp'.op \in {"wait_event", "wait_timeout"} /\ wait.state = "fulfilled")
            => (wait'.state = "fulfilled" /\ wait'.value = wait.value)]_vars
    /\ (wait.state = "pending") ~> (wait.state = "fulfilled")

\* C37 happens: the metadata wait resolved with null on an event that did
\* not parse, and a later event that parses has arrived since.
C37_Witness ==
    /\ wait.fn = "fetchUserMetadata"
    /\ wait.waited
    /\ wait.state = "fulfilled"
    /\ wait.value = "null"
    /\ Len(wait.arrived) = 2
    /\ ~wait.arrived[1].parsable
    /\ wait.arrived[2].parsable
    /\ wait.cache = wait.arrived[2].content

\* C39: insertSorted returns the array as it was when an event with the id
\* of the one inserted is in it, and what it returns is sorted by created_at.
C39_InsertIdempotent ==
    [][lastOp'.op = "insert"
          => /\ (\E i \in 1..Len(sortedArray) : sortedArray[i].id = lastOp'.ev.id)
                    => sortedArray' = sortedArray
             /\ Ascending(sortedArray')]_vars

\* C38: the event subscription is opened only after a check of the relays in
\* which one connected; a check in which none connected schedules one retry
\* and opens nothing; no more than one subscription is ever open, and one is
\* opened once a check has found a relay connected.
C38_SubscribeAfterCheck ==
    /\ [](boot.subs <= 1 /\ boot.timers <= 1)
    /\ [](boot.subs = 1 => (boot.checks > 0 /\ \E r \in Relays : boot.results[r] = "connected"))
    /\ [][(lastOp'.op = "check_done" /\ \A r \in Relays : boot.results[r] = "failed")
              => (boot'.scheduled = boot.scheduled + 1 /\ boot'.timers = 1 /\ boot'.subs = 0
                  /\ boot'.phase = "returned")]_vars
    /\ [][boot'.subs # boot.subs
              => (boot.phase = "metadata" /\ \A r \in Relays : boot.results[r] # "pending")]_vars
    /\ ((\A r \in Relays : boot.results[r] # "pending") /\ (\E r \in Relays : boot.results[r] = "connected"))
           ~> (boot.subs = 1)

\* Two checks found no relay, the third found one, and the subscription is open.
C38_Witness ==
    /\ boot.subs = 1
    /\ boot.checks = 3
    /\ boot.scheduled = 2
    /\ boot.timers = 0
    /\ Cardinality({r \in Relays : boot.results[r] = "connected"}) = 1

=============================================================================
